---- MODULE Spec2Model ----
(***************************************************************************)
(* Orionis Auto Sort: the concurrent file-processing pipeline of           *)
(* src/src/orionis (sorter.py, main.py, tray.py).                          *)
(*                                                                         *)
(* A string is a sequence of one-character strings, a path is the sequence *)
(* of its segments from the filesystem root ("/"), each segment a string.  *)
(***************************************************************************)
EXTENDS Integers, Sequences, FiniteSets, TLC

VARIABLES
    files,        \* existing regular files: path -> identity of the content
    dirs,         \* existing directories (paths)
    links,        \* symbolic links: path -> canonical target path
    work_queue,   \* main.py work_queue: the paths put and not yet taken
    status_queue, \* main.py status_queue: the messages put and not yet taken
    stop_event,   \* main.py stop_event
    workers,      \* the SortWorkers: position and locals of each
    main_pc,      \* the position of main()
    events,       \* how many watcher events were delivered
    enqueued,     \* history: how often each path was put on work_queue
    moved,        \* history: the content identities shutil.move has moved
    overwritten,  \* history: the content identities a move has replaced
    snap,         \* history: the filesystem and channel when _process_file was called
    call,         \* the last direct call of a helper function and its result
    tray,         \* tray.py: the status thread's position, the icon, what was shown
    self_file_categories, \* the category map the FileSorter and its workers were given
    finished      \* history: how often a call for an item ended in an outcome

fsvars == <<files, dirs, links>>
sysvars == <<work_queue, status_queue, stop_event, workers, main_pc, events,
             enqueued, moved, overwritten, snap, tray, self_file_categories, finished>>
vars == <<files, dirs, links, work_queue, status_queue, stop_event, workers, main_pc,
          events, enqueued, moved, overwritten, snap, call, tray, self_file_categories,
          finished>>

(***************************************************************************)
(* Strings                                                                 *)
(***************************************************************************)

UpperCase ==
    <<"A","B","C","D","E","F","G","H","I","J","K","L","M",
      "N","O","P","Q","R","S","T","U","V","W","X","Y","Z">>

LowerCase ==
    <<"a","b","c","d","e","f","g","h","i","j","k","l","m",
      "n","o","p","q","r","s","t","u","v","w","x","y","z">>

Digits == <<"0","1","2","3","4","5","6","7","8","9">>

\* str.lower() on one character
LowerChar(c) ==
    IF \E i \in 1..Len(UpperCase) : UpperCase[i] = c
    THEN LowerCase[CHOOSE i \in 1..Len(UpperCase) : UpperCase[i] = c]
    ELSE c

\* str.lower()
Lower(s) == [i \in 1..Len(s) |-> LowerChar(s[i])]

\* c.isalnum()
IsAlnum(c) ==
    \/ \E i \in 1..Len(UpperCase) : UpperCase[i] = c
    \/ \E i \in 1..Len(LowerCase) : LowerCase[i] = c
    \/ \E i \in 1..Len(Digits) : Digits[i] = c

\* sub in s
Contains(s, sub) ==
    \E i \in 1..(Len(s) - Len(sub) + 1) : SubSeq(s, i, i + Len(sub) - 1) = sub

\* s.startswith(pre)
StartsWith(s, pre) == Len(s) >= Len(pre) /\ SubSeq(s, 1, Len(pre)) = pre

\* ''.join(c for c in s if keep(c)), for the stem's sanitising
RECURSIVE FilterSafe(_)
FilterSafe(s) ==
    IF s = <<>> THEN <<>>
    ELSE IF IsAlnum(Head(s)) \/ Head(s) \in {" ", "-", "_"}
         THEN <<Head(s)>> \o FilterSafe(Tail(s))
         ELSE FilterSafe(Tail(s))

\* str.strip()
RECURSIVE Strip(_)
Strip(s) ==
    IF s = <<>> THEN s
    ELSE IF Head(s) = " " THEN Strip(Tail(s))
    ELSE IF s[Len(s)] = " " THEN Strip(SubSeq(s, 1, Len(s) - 1))
    ELSE s

\* str(n) for n >= 0
RECURSIVE IntToStr(_)
IntToStr(n) ==
    IF n < 10 THEN <<Digits[n + 1]>>
    ELSE IntToStr(n \div 10) \o <<Digits[(n % 10) + 1]>>

(***************************************************************************)
(* Paths (pathlib)                                                         *)
(***************************************************************************)

Dot == <<".">>
DotDot == <<".", ".">>

\* The segments of a path string: split at "/", empty and "." segments dropped.
RECURSIVE SplitFrom(_, _)
SplitFrom(s, cur) ==
    IF s = <<>> THEN (IF cur = <<>> \/ cur = Dot THEN <<>> ELSE <<cur>>)
    ELSE IF Head(s) = "/"
         THEN (IF cur = <<>> \/ cur = Dot THEN <<>> ELSE <<cur>>) \o SplitFrom(Tail(s), <<>>)
         ELSE SplitFrom(Tail(s), Append(cur, Head(s)))

Split(s) == SplitFrom(s, <<>>)

IsAbsolute(s) == StartsWith(s, <<"/">>)

\* base.joinpath(*parts): an absolute part replaces what precedes it.
RECURSIVE JoinPath(_, _)
JoinPath(base, parts) ==
    IF parts = <<>> THEN base
    ELSE JoinPath(IF IsAbsolute(Head(parts)) THEN Split(Head(parts))
                  ELSE base \o Split(Head(parts)),
                  Tail(parts))

\* Path.resolve(): ".." removes the segment before it (none at "/"), a
\* symbolic link is replaced by its target.
RECURSIVE ResolveFrom(_, _, _)
ResolveFrom(acc, segs, lk) ==
    IF segs = <<>> THEN acc
    ELSE IF Head(segs) = DotDot
         THEN ResolveFrom(IF acc = <<>> THEN acc ELSE SubSeq(acc, 1, Len(acc) - 1),
                          Tail(segs), lk)
         ELSE LET nxt == Append(acc, Head(segs))
              IN  ResolveFrom(IF nxt \in DOMAIN lk THEN lk[nxt] ELSE nxt, Tail(segs), lk)

Resolve(p, lk) == ResolveFrom(<<>>, p, lk)

\* p.relative_to(base) does not raise ValueError
IsRelativeTo(p, base) == Len(p) >= Len(base) /\ SubSeq(p, 1, Len(base)) = base

\* Path.name
PathName(p) == IF p = <<>> THEN <<>> ELSE p[Len(p)]

\* The index of the last "." of a name that starts a suffix, 0 when there is none.
SuffixIndex(name) ==
    LET dots == {i \in 1..Len(name) : name[i] = "."}
        last == IF dots = {} THEN 0 ELSE CHOOSE i \in dots : \A j \in dots : j <= i
    IN  IF 1 < last /\ last < Len(name) THEN last ELSE 0

\* Path.suffix
PathSuffix(name) ==
    IF SuffixIndex(name) = 0 THEN <<>> ELSE SubSeq(name, SuffixIndex(name), Len(name))

\* Path.stem
PathStem(name) ==
    IF SuffixIndex(name) = 0 THEN name ELSE SubSeq(name, 1, SuffixIndex(name) - 1)

\* Path.exists(), which follows symbolic links
Exists(p, f, d, lk) ==
    LET r == Resolve(p, lk) IN r \in DOMAIN f \/ r \in d

\* Path.is_file()
IsFile(p, f, lk) == Resolve(p, lk) \in DOMAIN f

(***************************************************************************)
(* sorter.py: helpers                                                      *)
(***************************************************************************)

NoPath == <<<<"?">>>>

safe_path_join_noresolve(base_path, additional_parts, lk) ==
    LET result == JoinPath(base_path, additional_parts)
    IN  IF IsRelativeTo(result, base_path)
        THEN [err |-> "none", path |-> result]
        ELSE [err |-> "PathTraversal", path |-> NoPath]

safe_path_join(base_path, additional_parts, lk) ==
    LET result == JoinPath(base_path, additional_parts)
        resolved == Resolve(result, lk)
        base_resolved == Resolve(base_path, lk)
    IN  IF IsRelativeTo(resolved, base_resolved)
        THEN [err |-> "none", path |-> resolved]
        ELSE [err |-> "PathTraversal", path |-> NoPath]

Others == <<"O","t","h","e","r","s">>

RECURSIVE ScanCategories(_, _)
ScanCategories(file_categories, file_extension) ==
    IF file_categories = <<>> THEN Others
    ELSE IF file_extension \in Head(file_categories).extensions
         THEN Head(file_categories).category
         ELSE ScanCategories(Tail(file_categories), file_extension)

_get_file_category_nolower(file_categories, file_extension) ==
    ScanCategories(file_categories, file_extension)

RECURSIVE ScanCategoriesLast(_, _)
ScanCategoriesLast(file_categories, file_extension) ==
    IF file_categories = <<>> THEN Others
    ELSE IF file_extension \in file_categories[Len(file_categories)].extensions
         THEN file_categories[Len(file_categories)].category
         ELSE ScanCategoriesLast(SubSeq(file_categories, 1, Len(file_categories) - 1),
                                 file_extension)

_get_file_category_lastwins(file_categories, file_extension) ==
    ScanCategoriesLast(file_categories, Lower(file_extension))

_get_file_category(file_categories, file_extension) ==
    ScanCategories(file_categories, Lower(file_extension))

\* The filename check of _get_unique_destination
InvalidFilename(filename) ==
    \/ Contains(filename, <<".", ".">>)
    \/ StartsWith(filename, <<"/">>)
    \/ Contains(filename, <<".", ".", "/">>)

\* The stem used for a suffixed name, sanitised when it holds "..", "/" or "\".
SanitizedStem(filename) ==
    LET stem == PathStem(PathName(Split(filename)))
    IN  IF Contains(stem, <<".", ".">>) \/ Contains(stem, <<"/">>) \/ Contains(stem, <<"\\">>)
        THEN Strip(FilterSafe(stem))
        ELSE stem

\* destination_folder / f"{stem}_{counter}{suffix}"
Suffixed(destination_folder, filename, counter) ==
    JoinPath(destination_folder,
             <<SanitizedStem(filename) \o <<"_">> \o IntToStr(counter)
               \o PathSuffix(PathName(Split(filename)))>>)

\* The while loop of _get_unique_destination, entered with the path to test.
RECURSIVE UniqueLoop(_, _, _, _, _, _, _)
UniqueLoop(destination_path, destination_folder, filename, counter, f, d, lk) ==
    IF Exists(destination_path, f, d, lk)
    THEN UniqueLoop(Suffixed(destination_folder, filename, counter),
                    destination_folder, filename, counter + 1, f, d, lk)
    ELSE destination_path

_get_unique_destination_noloop(destination_folder, filename, f, d, lk) ==
    IF InvalidFilename(filename)
    THEN [err |-> "InvalidName", path |-> NoPath]
    ELSE [err |-> "none", path |-> JoinPath(destination_folder, <<filename>>)]

_get_unique_destination(destination_folder, filename, f, d, lk) ==
    IF InvalidFilename(filename)
    THEN [err |-> "InvalidName", path |-> NoPath]
    ELSE [err |-> "none",
          path |-> UniqueLoop(JoinPath(destination_folder, <<filename>>),
                              destination_folder, filename, 1, f, d, lk)]

(***************************************************************************)
(* Names of the model's universe                                           *)
(***************************************************************************)

Home == <<"h">>
Downloads == <<"D">>
Outside == <<"O">>
Alias == <<"L">>
Images == <<"I","m","a","g","e","s">>
Documents == <<"D","o","c","s">>
Pictures == <<"P","i","c","s">>
Lnk == <<"l","n","k">>

ext_jpg == <<".","j","p","g">>
ext_JPG == <<".","J","P","G">>
ext_Jpg == <<".","J","p","g">>
ext_png == <<".","p","n","g">>
ext_pdf == <<".","p","d","f">>
ext_gif == <<".","g","i","f">>
ext_txt == <<".","t","x","t">>

\* main.py: downloads_path = Path.home() / "Downloads"
download_path == <<Home, Downloads>>

t_txt == <<"t">> \o ext_txt
t_1_txt == <<"t","_","1">> \o ext_txt
up_t_txt == <<".",".","/","t">> \o ext_txt
abs_t_txt == <<"/","t">> \o ext_txt
a_dotdot_txt == <<"a",".">> \o ext_txt
a_bs_b_txt == <<"a","\\","b">> \o ext_txt
s_x_txt == <<"s","/","x">> \o ext_txt

(***************************************************************************)
(* The system: filesystem, queues, workers                                 *)
(***************************************************************************)

\* sorter.py:13 sets NUM_WORKERS = 4; the model runs a smaller pool.
NUM_WORKERS == 2
STABLE_FILE_MAX_ATTEMPTS == 10
SmallThreshold == 1024
\* The sizes of the files of the universe: below and above the threshold.
SmallSize == 500
BigSize == 2000
\* How many events the watcher delivers, how many direct calls a test makes.
MaxEvents == 2
MaxCalls == 2

W == 1..NUM_WORKERS

\* SortWorker.__init__: self.download_path = download_path.resolve()
self_download_path == Resolve(download_path, <<>>)

\* The category map of the tests' fixture (config.json has the same shape).
FileCategories ==
    << [category |-> Images, extensions |-> {ext_jpg, ext_png}],
       [category |-> Documents, extensions |-> {ext_pdf}],
       [category |-> Others, extensions |-> {}] >>

a_jpg == <<"a">> \o ext_jpg
a_1_jpg == <<"a","_","1">> \o ext_jpg
a_dotdot_jpg == <<"a",".">> \o ext_jpg
s_txt == <<"s">> \o ext_txt

InRoot(name) == download_path \o <<name>>
OutsideFile == <<Home, Outside, s_txt>>
LinkPath == InRoot(Lnk)
\* A symbolic link that points to itself.
LoopPath == InRoot(<<"l","o","o","p">>)

BaseDirs == {<<>>, <<Home>>, download_path, <<Home, Outside>>}

\* A regular file: the identity of its content (where and when it appeared), its
\* size in bytes, and whether another process holds it open so that renaming it
\* raises PermissionError.
FileRec(p, gen, size) == [id |-> <<p, gen>>, size |-> size, locked |-> FALSE]

NameSize(name) == IF name = a_jpg THEN BigSize ELSE SmallSize

SortedMessage(name, category) ==
    [title |-> "File Sorted", name |-> name, category |-> category]

MoveErrorMessage(name) ==
    [title |-> "Move Error", name |-> name, category |-> <<>>]

IdleWorker(pc) ==
    [pc |-> pc, caller |-> "none", item |-> NoPath, file_path |-> NoPath,
     category |-> <<>>, destination_folder |-> NoPath, destination_path |-> NoPath,
     prev_size |-> -1, attempt |-> 0, outcome |-> "none", emitted |-> 0,
     file_size |-> -1,   \* _wait_for_file_completion's first size read
     polls |-> <<>>,     \* history: the sizes the polls of lines 138-146 have read
     checks |-> <<>>,    \* history: the checks of this call that have passed
     failed |-> FALSE]   \* history: a call of this worker ended in a failure

NoCall == [op |-> "none"]

\* The tray before SystemTrayIcon.run: the status thread is not started, the icon
\* is not visible, nothing is held and nothing was shown.
NoMessage == [title |-> "none"]
NoTray ==
    [pc |-> "unstarted", visible |-> FALSE, message |-> NoMessage,
     taken |-> 0,      \* history: how many messages the status thread has taken
     shown |-> <<>>]   \* history: the notifications icon.notify has displayed

\* deleted: where the worker was when the file it processes was deleted ("no"
\* when it was not), polls_then: how many polls it had made by then.
NoSnap == [files |-> <<>>, dirs |-> {}, status |-> <<>>, n |-> 0,
           deleted |-> "no", polls_then |-> 0]

\* Everything but the filesystem before the application (or a test) starts.
SysIdle ==
    /\ work_queue = <<>>
    /\ status_queue = <<>>
    /\ stop_event = FALSE
    /\ workers = [w \in W |-> IdleWorker("unstarted")]
    /\ main_pc = "none"
    /\ events = 0
    /\ enqueued = <<>>
    /\ moved = {}
    /\ overwritten = {}
    /\ snap = NoSnap
    /\ tray = NoTray
    /\ self_file_categories = FileCategories
    /\ finished = <<>>

\* work_queue.put(path), with its history
Put(q, path) == Append(q, path)

\* main.py:100-101 create both queues with queue.Queue(): maxsize 0, no limit
maxsize == 0

PutBlocks_bounded(q) == Len(q) >= 1

\* Queue.put(item) waits while a queue with a limit is full
PutBlocks(q) == maxsize > 0 /\ Len(q) >= maxsize

Counted(e, path) ==
    IF path \in DOMAIN e THEN [e EXCEPT ![path] = @ + 1] ELSE (path :> 1) @@ e

(***************************************************************************)
(* SortWorker._process_file                                                *)
(***************************************************************************)

\* A step of a worker that does not end a call of _process_file
SetWorker(w, rec) ==
    /\ workers' = [workers EXCEPT ![w] = rec]
    /\ UNCHANGED finished

\* The call for an item has ended in an outcome
Finish(fin, item, outcome) == Counted(fin, <<item, outcome>>)

Return_dies(w, outcome, n) ==
    /\ finished' = Finish(finished, workers[w].item, outcome)
    /\ workers' = [workers EXCEPT ![w] =
                 IF workers[w].caller = "run"
                 THEN [IdleWorker(IF outcome \in {"Failed", "Unexpected"}
                                  THEN "exited" ELSE "loop") EXCEPT !.failed = TRUE]
                 ELSE [IdleWorker("returned") EXCEPT !.caller = workers[w].caller,
                                                     !.item = workers[w].item,
                                                     !.outcome = outcome,
                                                     !.emitted = n,
                                                     !.polls = workers[w].polls]]

\* _process_file returns: to run()'s loop (task_done), or to the test that called
\* it, which then sees the outcome and how many messages the call emitted.
Return(w, outcome, n) ==
    /\ finished' = Finish(finished, workers[w].item, outcome)
    /\ workers' = [workers EXCEPT ![w] =
                 IF workers[w].caller = "run"
                 THEN [IdleWorker("loop") EXCEPT
                          !.failed = workers[w].failed \/ outcome # "Reported"]
                 ELSE [IdleWorker("returned") EXCEPT !.caller = workers[w].caller,
                                                     !.item = workers[w].item,
                                                     !.outcome = outcome,
                                                     !.emitted = n,
                                                     !.polls = workers[w].polls]]

InsideDownloads_always(file_path) == TRUE

\* file_path.relative_to(self.download_path) does not raise
InsideDownloads(file_path) == IsRelativeTo(file_path, self_download_path)

\* A symbolic link that points to itself lies on the path.
SymlinkLoop(p, lk) ==
    \E i \in 1..Len(p) : SubSeq(p, 1, i) \in DOMAIN lk /\ lk[SubSeq(p, 1, i)] = SubSeq(p, 1, i)

\* Path.resolve() of a path through a symbolic link loop: RuntimeError up to
\* Python 3.12, no exception from Python 3.13 on.
ResolveRaises(p, lk) == IF SymlinkLoop(p, lk) THEN {TRUE, FALSE} ELSE {FALSE}

\* A validation that reports a missing file to the user
ProcessValidate_notifies(w) ==
    /\ workers[w].pc = "validate"
    /\ \E raises \in ResolveRaises(workers[w].item, links) :
       \E file_path \in {Resolve(workers[w].item, links)} :
              IF raises
              THEN /\ ~PutBlocks(status_queue)
                   /\ status_queue' = Append(status_queue,
                                             MoveErrorMessage(PathName(workers[w].item)))
                   /\ Return(w, "Unexpected", 1)
              ELSE IF ~InsideDownloads(file_path)
                   THEN UNCHANGED status_queue /\ Return(w, "Rejected", 0)
                   ELSE IF \/ ~Exists(file_path, files, dirs, links)
                           \/ ~IsFile(file_path, files, links)
                        THEN /\ status_queue' = Append(status_queue,
                                                       MoveErrorMessage(PathName(file_path)))
                             /\ Return(w, "Skipped", 1)
                        ELSE /\ UNCHANGED status_queue
                             /\ SetWorker(w, [workers[w] EXCEPT
                                                 !.pc = "wait_stat",
                                                 !.file_path = file_path,
                                                 !.checks = <<"inside", "regular">>])
    /\ UNCHANGED <<fsvars, work_queue, stop_event, main_pc, events,
                   enqueued, moved, overwritten, snap, call, tray,
                   self_file_categories>>

\* lines 64-74: the path is resolved and must lie in the download directory and
\* be an existing regular file; lines 115-120 report a RuntimeError of resolve()
ProcessValidate(w) ==
    /\ workers[w].pc = "validate"
    /\ \E raises \in ResolveRaises(workers[w].item, links) :
       \E file_path \in {Resolve(workers[w].item, links)} :
              IF raises
              THEN /\ ~PutBlocks(status_queue)
                   /\ status_queue' = Append(status_queue,
                                             MoveErrorMessage(PathName(workers[w].item)))
                   /\ Return(w, "Unexpected", 1)
              ELSE /\ UNCHANGED status_queue
                   /\ IF ~InsideDownloads(file_path)
                      THEN Return(w, "Rejected", 0)
                      ELSE IF \/ ~Exists(file_path, files, dirs, links)
                              \/ ~IsFile(file_path, files, links)
                           THEN Return(w, "Skipped", 0)
                           ELSE SetWorker(w, [workers[w] EXCEPT
                                                 !.pc = "wait_stat",
                                                 !.file_path = file_path,
                                                 !.checks = <<"inside", "regular">>])
    /\ UNCHANGED <<fsvars, work_queue, stop_event, main_pc, events,
                   enqueued, moved, overwritten, snap, call, tray,
                   self_file_categories>>

AfterWait_ignored(w, rec, stable) ==
    SetWorker(w, [rec EXCEPT !.pc = "classify", !.file_size = -1,
                             !.checks = IF stable THEN Append(@, "stable") ELSE @])

\* lines 76-78: _wait_for_file_completion has returned; False ends the call
AfterWait(w, rec, stable) ==
    IF stable
    THEN SetWorker(w, [rec EXCEPT !.pc = "classify", !.file_size = -1,
                                  !.checks = Append(@, "stable")])
    ELSE Return(w, "Skipped", 0)

IsSmall_inclusive(file_size) == file_size <= SmallThreshold

\* line 133: if file_size < 1024
IsSmall(file_size) == file_size < SmallThreshold

\* _wait_for_file_completion, lines 124-135: the first size read
WaitStat(w) ==
    /\ workers[w].pc = "wait_stat"
    /\ LET file_path == workers[w].file_path
       IN  IF file_path \notin DOMAIN files
           THEN AfterWait(w, workers[w], FALSE)
           ELSE LET file_size == files[file_path].size
                IN  IF IsSmall(file_size)
                    THEN SetWorker(w, [workers[w] EXCEPT !.pc = "wait_small",
                                                         !.file_size = file_size])
                    ELSE SetWorker(w, [workers[w] EXCEPT !.pc = "wait_poll",
                                                         !.file_size = file_size,
                                                         !.prev_size = -1,
                                                         !.attempt = 0])
    /\ UNCHANGED <<fsvars, work_queue, status_queue, stop_event, main_pc, events,
                   enqueued, moved, overwritten, snap, call, tray,
                   self_file_categories>>

WaitSmall_noexists(w) ==
    /\ workers[w].pc = "wait_small"
    /\ AfterWait(w, workers[w], TRUE)
    /\ UNCHANGED <<fsvars, work_queue, status_queue, stop_event, main_pc, events,
                   enqueued, moved, overwritten, snap, call, tray,
                   self_file_categories>>

\* lines 134-135, after the sleep of a small file: return file_path.exists()
WaitSmall(w) ==
    /\ workers[w].pc = "wait_small"
    /\ AfterWait(w, workers[w], workers[w].file_path \in DOMAIN files)
    /\ UNCHANGED <<fsvars, work_queue, status_queue, stop_event, main_pc, events,
                   enqueued, moved, overwritten, snap, call, tray,
                   self_file_categories>>

PollsLeft_one_more(attempt) == attempt <= STABLE_FILE_MAX_ATTEMPTS

\* line 138: for attempt in range(STABLE_FILE_MAX_ATTEMPTS)
PollsLeft(attempt) == attempt < STABLE_FILE_MAX_ATTEMPTS

IsStable_zero_too(current_size, prev_size) == current_size = prev_size

\* line 143: current_size == prev_size and current_size > 0
IsStable(current_size, prev_size) == current_size = prev_size /\ current_size > 0

\* lines 138-149: one poll of the loop, or its exhaustion
WaitPoll(w) ==
    /\ workers[w].pc = "wait_poll"
    /\ LET file_path == workers[w].file_path
       IN  IF ~PollsLeft(workers[w].attempt)
           THEN AfterWait(w, workers[w], FALSE)
           ELSE IF file_path \notin DOMAIN files
                THEN AfterWait(w, workers[w], FALSE)
                ELSE LET current_size == files[file_path].size
                     IN  IF IsStable(current_size, workers[w].prev_size)
                         THEN AfterWait(w, [workers[w] EXCEPT
                                               !.prev_size = -1,
                                               !.attempt = 0,
                                               !.polls = Append(@, current_size)],
                                        TRUE)
                         ELSE SetWorker(w, [workers[w] EXCEPT
                                               !.prev_size = current_size,
                                               !.attempt = @ + 1,
                                               !.polls = Append(@, current_size)])
    /\ UNCHANGED <<fsvars, work_queue, status_queue, stop_event, main_pc, events,
                   enqueued, moved, overwritten, snap, call, tray,
                   self_file_categories>>

Parent(p) == SubSeq(p, 1, Len(p) - 1)

\* Path.mkdir(exist_ok=True): an existing directory is kept, a regular file at the
\* path raises FileExistsError, a missing parent FileNotFoundError (both OSError)
Mkdir(p, f, d) ==
    IF p \in d THEN [err |-> "none", dirs |-> d]
    ELSE IF p \in DOMAIN f THEN [err |-> "FileExistsError", dirs |-> d]
    ELSE IF Parent(p) \notin d THEN [err |-> "FileNotFoundError", dirs |-> d]
    ELSE [err |-> "none", dirs |-> d \cup {p}]

\* lines 80-88: the category and its folder; what mkdir raises is an OSError
Classify(w) ==
    /\ workers[w].pc = "classify"
    /\ \E name \in {PathName(workers[w].file_path)} :
       \E category \in {_get_file_category(self_file_categories, PathSuffix(name))} :
       \E joined \in {safe_path_join(self_download_path, <<category>>, links)} :
           IF joined.err # "none"
           THEN /\ Return(w, "Rejected", 0)
                /\ UNCHANGED <<dirs, status_queue>>
           ELSE IF Mkdir(joined.path, files, dirs).err # "none"
                THEN /\ ~PutBlocks(status_queue)
                     /\ status_queue' = Append(status_queue, MoveErrorMessage(name))
                     /\ Return(w, "Failed", 1)
                     /\ UNCHANGED dirs
                ELSE /\ dirs' = Mkdir(joined.path, files, dirs).dirs
                     /\ SetWorker(w, [workers[w] EXCEPT !.pc = "resolve",
                                                        !.category = category,
                                                        !.destination_folder = joined.path])
                     /\ UNCHANGED status_queue
    /\ UNCHANGED <<files, links, work_queue, stop_event, main_pc, events,
                   enqueued, moved, overwritten, snap, call, tray,
                   self_file_categories>>

\* lines 90-97: the unique destination, validated again
ResolveDestination(w) ==
    /\ workers[w].pc = "resolve"
    /\ \E r \in {_get_unique_destination(workers[w].destination_folder,
                                           PathName(workers[w].file_path),
                                           files, dirs, links)} :
           IF r.err # "none" \/ ~IsRelativeTo(r.path, self_download_path)
           THEN Return(w, "Rejected", 0)
           ELSE SetWorker(w, [workers[w] EXCEPT !.pc = "move",
                                                !.destination_path = r.path])
    /\ UNCHANGED <<fsvars, work_queue, status_queue, stop_event, main_pc, events,
                   enqueued, moved, overwritten, snap, call, tray,
                   self_file_categories>>

\* shutil.move raises: FileNotFoundError for a missing source or folder,
\* PermissionError for a source another process holds open
MoveRaises(src, folder, f, d) ==
    src \notin DOMAIN f \/ folder \notin d \/ f[src].locked

FilesAfterFailedMove_lost(f, src, dst) == [p \in DOMAIN f \ {src} |-> f[p]]

\* The files after a shutil.move that raised: os.rename has changed nothing
FilesAfterFailedMove(f, src, dst) == f

\* The files after shutil.move: os.rename replaces a file that is at the
\* destination
FilesAfterMove(f, src, dst) ==
    [p \in (DOMAIN f \ {src}) \cup {dst} |-> IF p = dst THEN f[src] ELSE f[p]]

\* A move that is tried again for as long as shutil.move raises
Move_retries(w) ==
    /\ workers[w].pc = "move"
    /\ LET src == workers[w].file_path
           dst == workers[w].destination_path
       IN  IF MoveRaises(src, workers[w].destination_folder, files, dirs)
           THEN /\ SetWorker(w, workers[w])
                /\ UNCHANGED <<files, status_queue, moved, overwritten>>
           ELSE /\ files' = FilesAfterMove(files, src, dst)
                /\ moved' = moved \cup {files[src].id}
                /\ overwritten' = overwritten \cup
                                  (IF dst \in DOMAIN files THEN {files[dst].id} ELSE {})
                /\ SetWorker(w, [workers[w] EXCEPT !.pc = "report"])
                /\ UNCHANGED status_queue
    /\ UNCHANGED <<dirs, links, work_queue, stop_event, main_pc, events, enqueued,
                   snap, call, tray,
                   self_file_categories>>

\* line 102, shutil.move, and lines 109-114, which report what it raises
Move(w) ==
    /\ workers[w].pc = "move"
    /\ LET src == workers[w].file_path
           dst == workers[w].destination_path
       IN  IF MoveRaises(src, workers[w].destination_folder, files, dirs)
           THEN /\ ~PutBlocks(status_queue)
                /\ status_queue' = Append(status_queue, MoveErrorMessage(PathName(src)))
                /\ Return(w, "Failed", 1)
                /\ files' = FilesAfterFailedMove(files, src, dst)
                /\ UNCHANGED <<moved, overwritten>>
           ELSE /\ files' = FilesAfterMove(files, src, dst)
                /\ moved' = moved \cup {files[src].id}
                /\ overwritten' = overwritten \cup
                                  (IF dst \in DOMAIN files THEN {files[dst].id} ELSE {})
                /\ SetWorker(w, [workers[w] EXCEPT !.pc = "report"])
                /\ UNCHANGED status_queue
    /\ UNCHANGED <<dirs, links, work_queue, stop_event, main_pc, events, enqueued,
                   snap, call, tray,
                   self_file_categories>>

\* lines 103-107: the 'File Sorted' message
Report(w) ==
    /\ workers[w].pc = "report"
    /\ ~PutBlocks(status_queue)
    /\ status_queue' = Append(status_queue,
                              SortedMessage(PathName(workers[w].file_path),
                                            workers[w].category))
    /\ Return(w, "Reported", 1)
    /\ UNCHANGED <<fsvars, work_queue, stop_event, main_pc, events, enqueued, moved,
                   overwritten, snap, call, tray,
                   self_file_categories>>

ProcessStep(w) ==
    \/ ProcessValidate(w)
    \/ WaitStat(w)
    \/ WaitSmall(w)
    \/ WaitPoll(w)
    \/ Classify(w)
    \/ ResolveDestination(w)
    \/ Move(w)
    \/ Report(w)

(***************************************************************************)
(* The application: main(), the watcher, the worker threads                *)
(***************************************************************************)

\* SortWorker.run, line 51: the loop's test of the stop event
LoopCheck(w) ==
    /\ workers[w].pc = "loop"
    /\ SetWorker(w, [workers[w] EXCEPT !.pc = IF stop_event THEN "exited" ELSE "get"])
    /\ UNCHANGED <<fsvars, work_queue, status_queue, stop_event, main_pc, events,
                   enqueued, moved, overwritten, snap, call, tray,
                   self_file_categories>>

\* line 53: work_queue.get(timeout=1) returns the oldest item
GetItem(w) ==
    /\ workers[w].pc = "get"
    /\ work_queue # <<>>
    /\ SetWorker(w, [workers[w] EXCEPT !.pc = "validate", !.caller = "run",
                                       !.item = Head(work_queue)])
    /\ work_queue' = Tail(work_queue)
    /\ UNCHANGED <<fsvars, status_queue, stop_event, main_pc, events, enqueued, moved,
                   overwritten, snap, call, tray,
                   self_file_categories>>

\* work_queue.get() without a timeout never raises queue.Empty
GetTimeout_blocks(w) ==
    /\ FALSE
    /\ UNCHANGED vars

\* lines 56-57: queue.Empty after the timeout, back to the loop's test
GetTimeout(w) ==
    /\ workers[w].pc = "get"
    /\ work_queue = <<>>
    /\ SetWorker(w, [workers[w] EXCEPT !.pc = "loop"])
    /\ UNCHANGED <<fsvars, work_queue, status_queue, stop_event, main_pc, events,
                   enqueued, moved, overwritten, snap, call, tray,
                   self_file_categories>>

\* FileSorter.start, lines 192-201: the workers are created and started
StartWorkers ==
    /\ main_pc = "start"
    /\ workers' = [w \in W |-> IdleWorker("loop")]
    /\ main_pc' = "create_folders"
    /\ UNCHANGED finished
    /\ UNCHANGED <<fsvars, work_queue, status_queue, stop_event, events, enqueued,
                   moved, overwritten, snap, call, tray,
                   self_file_categories>>

\* The folders _create_category_folders asks for: a name whose join leaves the
\* root is skipped (ValueError).
CategoryFolders ==
    {safe_path_join(self_download_path, <<self_file_categories[i].category>>, links).path :
        i \in {j \in 1..Len(self_file_categories) :
                 safe_path_join(self_download_path, <<self_file_categories[j].category>>,
                                links).err = "none"}}

\* lines 215-222, the loop over the keys: a ValueError skips the key, what mkdir
\* raises ends the loop with the folders made so far
RECURSIVE CreateFolders(_, _, _, _)
\* line 219: what mkdir raises ends the loop, otherwise the next key
AfterMkdir(r, rest, f, lk) ==
    IF r.err # "none" THEN r ELSE CreateFolders(rest, f, r.dirs, lk)

\* lines 217-222: a ValueError of safe_path_join skips the key
AfterJoin(joined, rest, f, d, lk) ==
    IF joined.err # "none" THEN CreateFolders(rest, f, d, lk)
    ELSE AfterMkdir(Mkdir(joined.path, f, d), rest, f, lk)

CreateFolders(fc, f, d, lk) ==
    IF fc = <<>> THEN [err |-> "none", dirs |-> d]
    ELSE AfterJoin(safe_path_join(self_download_path, <<Head(fc).category>>, lk),
                   Tail(fc), f, d, lk)

\* FileSorter.start, line 204: _create_category_folders; what mkdir raises is not
\* caught and main() treats it as fatal
CreateCategoryFolders ==
    /\ main_pc = "create_folders"
    /\ \E r \in {CreateFolders(self_file_categories, files, dirs, links)} :
          /\ dirs' = r.dirs
          /\ main_pc' = IF r.err = "none" THEN "sort_existing" ELSE "fatal"
    /\ UNCHANGED <<files, links, work_queue, status_queue, stop_event, workers,
                   finished, events, enqueued, moved, overwritten, snap, call, tray,
                   self_file_categories>>

\* The entries of the download directory that sort_existing_files queues: those
\* that are regular files (is_file follows links) and whose resolved path is in
\* the directory.
ExistingEntries ==
    {q \in DOMAIN files \cup DOMAIN links :
        /\ Len(q) = Len(self_download_path) + 1
        /\ IsRelativeTo(q, self_download_path)
        /\ IsFile(q, files, links)
        /\ IsRelativeTo(Resolve(q, links), self_download_path)}

\* What is put for them: safe_path, the resolved path of the entry
ExistingToQueue == {Resolve(p, links) : p \in ExistingEntries}

\* The orders in which iterdir may list a set of entries
Orders(S) == {o \in [1..Cardinality(S) -> S] : \A i, j \in DOMAIN o : o[i] = o[j] => i = j}

RECURSIVE CountAll(_, _)
CountAll(e, o) == IF o = <<>> THEN e ELSE CountAll(Counted(e, Head(o)), Tail(o))

\* FileSorter.sort_existing_files
SortExistingFiles ==
    /\ main_pc = "sort_existing"
    /\ \E o \in Orders(ExistingEntries) :
          LET safe_paths == [i \in 1..Len(o) |-> Resolve(o[i], links)]
          IN  /\ work_queue' = work_queue \o safe_paths
              /\ enqueued' = CountAll(enqueued, safe_paths)
    /\ main_pc' = "running"
    /\ UNCHANGED <<fsvars, status_queue, stop_event, workers, finished, events, moved,
                   overwritten, snap, call, tray,
                   self_file_categories>>

\* main.py signal_handler (and the tray's Exit): stop_event.set()
Signal ==
    /\ main_pc \notin {"none", "exited"}
    /\ ~stop_event
    /\ stop_event' = TRUE
    /\ UNCHANGED <<fsvars, work_queue, status_queue, workers, finished, main_pc, events,
                   enqueued, moved, overwritten, snap, call, tray,
                   self_file_categories>>

\* WatcherEventHandler.on_created: the queue after the event
on_created(q, event) ==
    IF ~event.is_directory THEN Put(q, event.src_path) ELSE q

\* WatcherEventHandler.on_moved: the queue after the event
on_moved(q, event) ==
    IF ~event.is_directory
       /\ SubSeq(event.dest_path, 1, Len(event.dest_path) - 1) = download_path
    THEN Put(q, event.dest_path) ELSE q

RootNames == {a_jpg, a_1_jpg, a_dotdot_jpg}

\* The observer thread runs from main.py:129 until observer.stop() at line 146.
ObserverAlive ==
    main_pc \in {"start", "create_folders", "sort_existing", "running", "fatal"}

\* A download creates a file in the download directory; the observer calls on_created.
Download ==
    \E name \in RootNames :
        /\ ObserverAlive
        /\ events < MaxEvents
        /\ ~Exists(InRoot(name), files, dirs, links)
        /\ files' = (InRoot(name) :> FileRec(InRoot(name), events + 1, NameSize(name)))
                    @@ files
        /\ events' = events + 1
        /\ work_queue' = on_created(work_queue,
                                    [is_directory |-> FALSE, src_path |-> InRoot(name)])
        /\ enqueued' = IF work_queue' = work_queue THEN enqueued
                       ELSE Counted(enqueued, InRoot(name))
        /\ UNCHANGED <<dirs, links, status_queue, stop_event, workers, finished, main_pc, moved,
                       overwritten, snap, call, tray,
                   self_file_categories>>

\* A file is moved into the download directory; the observer calls on_moved.
MoveIn ==
    \E name \in RootNames :
        /\ ObserverAlive
        /\ events < MaxEvents
        /\ ~Exists(InRoot(name), files, dirs, links)
        /\ files' = (InRoot(name) :> FileRec(InRoot(name), events + 1, NameSize(name)))
                    @@ files
        /\ events' = events + 1
        /\ work_queue' = on_moved(work_queue,
                                  [is_directory |-> FALSE, dest_path |-> InRoot(name)])
        /\ enqueued' = IF work_queue' = work_queue THEN enqueued
                       ELSE Counted(enqueued, InRoot(name))
        /\ UNCHANGED <<dirs, links, status_queue, stop_event, workers, finished, main_pc, moved,
                       overwritten, snap, call, tray,
                   self_file_categories>>

\* A symbolic link to a file outside is created in the download directory.
CreateLink ==
    /\ ObserverAlive
    /\ events < MaxEvents
    /\ ~Exists(LinkPath, files, dirs, links)
    /\ LinkPath \notin DOMAIN links
    /\ links' = (LinkPath :> OutsideFile) @@ links
    /\ events' = events + 1
    /\ work_queue' = on_created(work_queue,
                                [is_directory |-> FALSE, src_path |-> LinkPath])
    /\ enqueued' = IF work_queue' = work_queue THEN enqueued
                   ELSE Counted(enqueued, LinkPath)
    /\ UNCHANGED <<files, dirs, status_queue, stop_event, workers, finished, main_pc, moved,
                   overwritten, snap, call, tray,
                   self_file_categories>>

\* main.py:138-147: tray_icon.run() returns once the icon was stopped (the signal
\* handler and the tray's Exit stop it after setting stop_event), or start() has
\* raised; the finally block stops the observer.
Finally ==
    /\ \/ main_pc = "running" /\ stop_event
       \/ main_pc = "fatal"
    /\ main_pc' = "stop"
    /\ UNCHANGED <<fsvars, work_queue, status_queue, stop_event, workers, finished, events,
                   enqueued, moved, overwritten, snap, call, tray,
                   self_file_categories>>

\* FileSorter.stop (main.py:149): each live worker is joined for at most 2
\* seconds, so stop() returns whatever the workers are doing.
Stop ==
    /\ main_pc = "stop"
    /\ main_pc' = "goodbye"
    /\ UNCHANGED <<fsvars, work_queue, status_queue, stop_event, workers, finished, events,
                   enqueued, moved, overwritten, snap, call, tray,
                   self_file_categories>>

\* main() returns (main.py:156) and the interpreter exits: the workers are daemon
\* threads (sorter.py:42), those still running end where they are.
Exit ==
    /\ main_pc = "goodbye"
    /\ main_pc' = "exited"
    /\ workers' = [w \in W |-> IF workers[w].pc = "exited" THEN workers[w]
                               ELSE [workers[w] EXCEPT !.pc = "killed"]]
    /\ UNCHANGED <<fsvars, work_queue, status_queue, stop_event, events,
                   enqueued, moved, overwritten, snap, call, tray,
                   self_file_categories, finished>>

Documents_file == InRoot(Documents)

MainFsOptions ==
    { [files |-> (OutsideFile :> FileRec(OutsideFile, 0, SmallSize)),
       dirs |-> BaseDirs],
      [files |-> (InRoot(a_jpg) :> FileRec(InRoot(a_jpg), 0, BigSize))
                 @@ (Documents_file :> FileRec(Documents_file, 0, SmallSize)),
       dirs |-> BaseDirs],
      [files |-> (InRoot(a_jpg) :> FileRec(InRoot(a_jpg), 0, BigSize))
                 @@ (OutsideFile :> FileRec(OutsideFile, 0, SmallSize)),
       dirs |-> BaseDirs],
      [files |-> (InRoot(a_jpg) :> FileRec(InRoot(a_jpg), 0, BigSize))
                 @@ (InRoot(a_1_jpg) :> FileRec(InRoot(a_1_jpg), 0, SmallSize))
                 @@ (download_path \o <<Images, a_jpg>>
                       :> FileRec(download_path \o <<Images, a_jpg>>, 0, SmallSize))
                 @@ (OutsideFile :> FileRec(OutsideFile, 0, SmallSize)),
       dirs |-> BaseDirs \cup {download_path \o <<Images>>}] }

\* main() after observer.start(), before file_sorter.start()
Init ==
    /\ \E o \in MainFsOptions :
          /\ files = o.files
          /\ dirs = o.dirs
    /\ links = <<>>
    /\ work_queue = <<>>
    /\ status_queue = <<>>
    /\ stop_event = FALSE
    /\ workers = [w \in W |-> IdleWorker("unstarted")]
    /\ main_pc = "start"
    /\ events = 0
    /\ enqueued = <<>>
    /\ moved = {}
    /\ overwritten = {}
    /\ snap = NoSnap
    /\ tray = NoTray
    /\ self_file_categories = FileCategories
    /\ finished = <<>>
    /\ call = NoCall

Next ==
    \/ StartWorkers
    \/ CreateCategoryFolders
    \/ SortExistingFiles
    \/ Signal
    \/ Finally
    \/ Stop
    \/ Exit
    \/ Download
    \/ MoveIn
    \/ CreateLink
    \/ \E w \in W : LoopCheck(w)
    \/ \E w \in W : GetItem(w)
    \/ \E w \in W : GetTimeout(w)
    \/ \E w \in W : ProcessStep(w)

Spec == Init /\ [][Next]_vars

(***************************************************************************)
(* The pool alone: FileSorter.start and sort_existing_files on a queue the *)
(* watcher has already filled, no further events                           *)
(***************************************************************************)

\* What the watcher has queued before the pool starts.
PoolQueues ==
    {<<>>, <<LinkPath>>, <<LoopPath>>, <<InRoot(a_dotdot_jpg)>>}

PoolInit ==
    /\ files = (InRoot(a_jpg) :> [FileRec(InRoot(a_jpg), 0, BigSize)
                                   EXCEPT !.locked = TRUE])
               @@ (InRoot(a_1_jpg) :> FileRec(InRoot(a_1_jpg), 0, SmallSize))
               @@ (OutsideFile :> FileRec(OutsideFile, 0, SmallSize))
    /\ dirs = BaseDirs
    /\ links = (LinkPath :> OutsideFile)
               @@ (LoopPath :> LoopPath)
    /\ work_queue \in PoolQueues
    /\ status_queue = <<>>
    /\ stop_event = FALSE
    /\ workers = [w \in W |-> IdleWorker("unstarted")]
    /\ main_pc = "start"
    /\ events = 0
    /\ enqueued = CountAll(<<>>, work_queue)
    /\ moved = {}
    /\ overwritten = {}
    /\ snap = NoSnap
    /\ tray = NoTray
    /\ self_file_categories = FileCategories
    /\ finished = <<>>
    /\ call = NoCall

PoolNext ==
    \/ StartWorkers
    \/ CreateCategoryFolders
    \/ SortExistingFiles
    \/ Signal
    \/ \E w \in W : LoopCheck(w)
    \/ \E w \in W : GetItem(w)
    \/ \E w \in W : GetTimeout(w)
    \/ \E w \in W : ProcessStep(w)

PoolSpec == PoolInit /\ [][PoolNext]_vars

(***************************************************************************)
(* The running pool under a fair scheduler: main() is in tray_icon.run(),  *)
(* the workers take the items that were queued                             *)
(***************************************************************************)

LiveQueues ==
    { <<InRoot(a_1_jpg), InRoot(a_jpg)>>,
      <<LoopPath, InRoot(a_1_jpg)>>,
      <<LinkPath, InRoot(a_jpg)>> }

\* main() when sort_existing_files has returned, with what it and the watcher
\* have queued
LiveInit ==
    /\ files = (InRoot(a_jpg) :> [FileRec(InRoot(a_jpg), 0, BigSize)
                                   EXCEPT !.locked = TRUE])
               @@ (InRoot(a_1_jpg) :> FileRec(InRoot(a_1_jpg), 0, SmallSize))
               @@ (OutsideFile :> FileRec(OutsideFile, 0, SmallSize))
    /\ dirs = BaseDirs \cup {InRoot(FileCategories[i].category) :
                                i \in 1..Len(FileCategories)}
    /\ links = (LinkPath :> OutsideFile) @@ (LoopPath :> LoopPath)
    /\ work_queue \in LiveQueues
    /\ status_queue = <<>>
    /\ stop_event = FALSE
    /\ workers = [w \in W |-> IdleWorker("loop")]
    /\ main_pc = "running"
    /\ events = 0
    /\ enqueued = CountAll(<<>>, work_queue)
    /\ moved = {}
    /\ overwritten = {}
    /\ snap = NoSnap
    /\ tray = NoTray
    /\ self_file_categories = FileCategories
    /\ finished = <<>>
    /\ call = NoCall

\* SortWorker.run: the steps of one worker thread
WorkerNext(w) == LoopCheck(w) \/ GetItem(w) \/ GetTimeout(w) \/ ProcessStep(w)

LiveNext ==
    \/ Signal
    \/ \E w \in W : WorkerNext(w)

\* Every worker thread is scheduled again and again. Nothing obliges the
\* environment to send the signal.
LiveSpec ==
    /\ LiveInit
    /\ [][LiveNext]_vars
    /\ \A w \in W : WF_vars(WorkerNext(w))

(***************************************************************************)
(* Direct calls of _process_file (as test_sorter.py makes them)            *)
(***************************************************************************)

ProcessFsOptions ==
    { [files |-> (InRoot(a_jpg) :> FileRec(InRoot(a_jpg), 0, BigSize))
                 @@ (InRoot(a_dotdot_jpg) :> FileRec(InRoot(a_dotdot_jpg), 0, SmallSize))
                 @@ (OutsideFile :> FileRec(OutsideFile, 0, SmallSize)),
       dirs |-> BaseDirs,
       links |-> <<>>],
      [files |-> (InRoot(a_jpg) :> FileRec(InRoot(a_jpg), 0, BigSize))
                 @@ (InRoot(a_1_jpg) :> FileRec(InRoot(a_1_jpg), 0, SmallSize))
                 @@ (download_path \o <<Images, a_jpg>>
                       :> FileRec(download_path \o <<Images, a_jpg>>, 0, SmallSize))
                 @@ (OutsideFile :> FileRec(OutsideFile, 0, SmallSize)),
       dirs |-> BaseDirs \cup {download_path \o <<Images>>},
       links |-> <<>>],
      [files |-> (InRoot(a_jpg) :> FileRec(InRoot(a_jpg), 0, BigSize))
                 @@ (OutsideFile :> FileRec(OutsideFile, 0, SmallSize)),
       dirs |-> BaseDirs,
       links |-> (LinkPath :> OutsideFile)] }

ProcessItems ==
    { InRoot(a_jpg), InRoot(a_1_jpg), InRoot(a_dotdot_jpg), OutsideFile, LinkPath,
      download_path \o <<Images, a_jpg>>, download_path,
      download_path \o <<DotDot, Outside, s_txt>> }

ProcessInit ==
    /\ \E o \in ProcessFsOptions :
          /\ files = o.files
          /\ dirs = o.dirs
          /\ links = o.links
    /\ SysIdle
    /\ call = NoCall

\* worker._process_file(item), called on a worker whose thread was not started
CallProcess ==
    \E item \in ProcessItems :
        /\ workers[1].pc \in {"unstarted", "returned"}
        /\ snap.n < MaxCalls
        /\ SetWorker(1, [IdleWorker("validate") EXCEPT !.caller = "test", !.item = item])
        /\ snap' = [NoSnap EXCEPT !.files = files, !.dirs = dirs,
                                  !.status = status_queue, !.n = snap.n + 1]
        /\ UNCHANGED <<fsvars, work_queue, status_queue, stop_event, main_pc, events,
                       enqueued, moved, overwritten, call, tray,
                   self_file_categories>>

ProcessNext ==
    \/ CallProcess
    \/ \E w \in W : ProcessStep(w)

ProcessSpec == ProcessInit /\ [][ProcessNext]_vars

(***************************************************************************)
(* A direct call of sort_existing_files (as test_sorter.py:127-144 makes   *)
(* it) on a directory with files, a folder with a file, and a link         *)
(***************************************************************************)

SubFile == download_path \o <<Images, a_jpg>>

ExistingRootFiles == SUBSET {InRoot(a_jpg), InRoot(a_1_jpg), InRoot(s_txt)}

\* Where the link of the directory points to, if there is one.
ExistingLinks ==
    { <<>>, LinkPath :> OutsideFile, LinkPath :> SubFile, LinkPath :> InRoot(a_jpg) }

ExistingInit ==
    /\ \E rf \in ExistingRootFiles, sub \in SUBSET {SubFile} :
          files = [p \in rf \cup sub \cup {OutsideFile} |-> FileRec(p, 0, SmallSize)]
    /\ dirs = BaseDirs \cup {download_path \o <<Images>>}
    /\ links \in ExistingLinks
    /\ work_queue = <<>>
    /\ status_queue = <<>>
    /\ stop_event = FALSE
    /\ workers = [w \in W |-> IdleWorker("unstarted")]
    /\ main_pc = "sort_existing"
    /\ events = 0
    /\ enqueued = <<>>
    /\ moved = {}
    /\ overwritten = {}
    /\ snap = [NoSnap EXCEPT !.files = files, !.dirs = dirs]
    /\ tray = NoTray
    /\ self_file_categories = FileCategories
    /\ finished = <<>>
    /\ call = NoCall

ExistingNext == SortExistingFiles

ExistingSpec == ExistingInit /\ [][ExistingNext]_vars

(***************************************************************************)
(* The event handler alone: the observer thread dispatches created and     *)
(* moved events to WatcherEventHandler                                     *)
(***************************************************************************)

\* How many events the observer dispatches to the handler.
MaxDelivered == 3

SubDir == download_path \o <<Images, Pictures>>

\* The paths the dispatched events are about: files and a folder in the download
\* directory, a file and a folder in one of its folders.
EventPaths ==
    {InRoot(a_jpg), InRoot(a_1_jpg), InRoot(s_txt), InRoot(Images), SubFile, SubDir}

EventDirs == {InRoot(Images), SubDir}

CreatedEvents ==
    {[is_directory |-> p \in EventDirs, src_path |-> p] : p \in EventPaths}

MovedEvents ==
    {[is_directory |-> p \in EventDirs, dest_path |-> p] : p \in EventPaths}

WatcherInit ==
    /\ files = [p \in EventPaths \ EventDirs |-> FileRec(p, 0, SmallSize)]
    /\ dirs = BaseDirs \cup EventDirs
    /\ links = <<>>
    /\ work_queue = <<>>
    /\ status_queue = <<>>
    /\ stop_event = FALSE
    /\ workers = [w \in W |-> IdleWorker("unstarted")]
    /\ main_pc = "start"
    /\ events = 0
    /\ enqueued = <<>>
    /\ moved = {}
    /\ overwritten = {}
    /\ snap = NoSnap
    /\ tray = NoTray
    /\ self_file_categories = FileCategories
    /\ finished = <<>>
    /\ call = NoCall

\* The observer dispatches an event: the queue after the handler has run
Dispatched(q) ==
    /\ events < MaxDelivered
    /\ events' = events + 1
    /\ work_queue' = q
    /\ enqueued' = IF q = work_queue THEN enqueued ELSE Counted(enqueued, q[Len(q)])
    /\ UNCHANGED <<fsvars, status_queue, stop_event, workers, finished, main_pc, moved,
                   overwritten, snap, call, tray, self_file_categories>>

DispatchCreated == \E event \in CreatedEvents : Dispatched(on_created(work_queue, event))

DispatchMoved == \E event \in MovedEvents : Dispatched(on_moved(work_queue, event))

WatcherNext == DispatchCreated \/ DispatchMoved

WatcherSpec == WatcherInit /\ [][WatcherNext]_vars

(***************************************************************************)
(* The tray: SystemTrayIcon.run in the main thread, its status thread that *)
(* takes the workers' messages, the signal and the end of main()           *)
(***************************************************************************)

TrayVars == <<fsvars, work_queue, stop_event, workers, finished, main_pc, events,
              enqueued, moved, overwritten, snap, call, self_file_categories>>

\* SystemTrayIcon.run, line 80: status_thread.start()
StatusStart ==
    /\ main_pc = "running"
    /\ tray.pc = "unstarted"
    /\ tray' = [tray EXCEPT !.pc = "loop"]
    /\ UNCHANGED <<TrayVars, status_queue>>

\* SystemTrayIcon.run, line 81: icon.run() sets the icon up and makes it visible
IconRun ==
    /\ main_pc = "running"
    /\ tray.pc # "unstarted"
    /\ ~stop_event
    /\ ~tray.visible
    /\ tray' = [tray EXCEPT !.visible = TRUE]
    /\ UNCHANGED <<TrayVars, status_queue>>

\* signal_handler (main.py:116-119) and _exit_app (tray.py:51-55): the stop event
\* is set and icon.stop() removes the icon
TraySignal ==
    /\ main_pc = "running"
    /\ ~stop_event
    /\ stop_event' = TRUE
    /\ tray' = [tray EXCEPT !.visible = FALSE]
    /\ UNCHANGED <<fsvars, work_queue, status_queue, workers, finished, main_pc, events,
                   enqueued, moved, overwritten, snap, call, self_file_categories>>

\* The status thread is a daemon thread: it runs while the process does.
StatusAlive == main_pc # "exited"

\* _process_status_queue, line 59: the loop's test of the stop event
StatusLoopCheck ==
    /\ StatusAlive
    /\ tray.pc = "loop"
    /\ tray' = [tray EXCEPT !.pc = IF stop_event THEN "exited" ELSE "get"]
    /\ UNCHANGED <<TrayVars, status_queue>>

\* line 61: status_queue.get(timeout=1) returns the oldest message
StatusGet ==
    /\ StatusAlive
    /\ tray.pc = "get"
    /\ status_queue # <<>>
    /\ tray' = [tray EXCEPT !.pc = "show", !.message = Head(status_queue),
                             !.taken = @ + 1]
    /\ status_queue' = Tail(status_queue)
    /\ UNCHANGED TrayVars

\* lines 67-68: queue.Empty after the timeout, back to the loop's test
StatusTimeout ==
    /\ StatusAlive
    /\ tray.pc = "get"
    /\ status_queue = <<>>
    /\ tray' = [tray EXCEPT !.pc = "loop"]
    /\ UNCHANGED <<TrayVars, status_queue>>

\* lines 62-66 and show_notification, lines 72-75: icon.notify if the icon is
\* visible, nothing otherwise
ShowNotification ==
    /\ StatusAlive
    /\ tray.pc = "show"
    /\ tray' = [tray EXCEPT !.pc = "loop", !.message = NoMessage,
                             !.shown = IF tray.visible THEN Append(@, tray.message)
                                       ELSE @]
    /\ UNCHANGED <<TrayVars, status_queue>>

TrayQueues == {<<InRoot(a_1_jpg)>>, <<InRoot(a_jpg), InRoot(a_1_jpg)>>}

\* main() when sort_existing_files has returned: the workers run, the folders
\* exist, the files of the directory are queued, tray_icon.run() is about to start
TrayInit ==
    /\ files = (InRoot(a_jpg) :> [FileRec(InRoot(a_jpg), 0, BigSize)
                                   EXCEPT !.locked = TRUE])
               @@ (InRoot(a_1_jpg) :> FileRec(InRoot(a_1_jpg), 0, SmallSize))
    /\ dirs = BaseDirs \cup {InRoot(FileCategories[i].category) :
                                i \in 1..Len(FileCategories)}
    /\ links = <<>>
    /\ work_queue \in TrayQueues
    /\ status_queue = <<>>
    /\ stop_event = FALSE
    /\ workers = [w \in W |-> IdleWorker("loop")]
    /\ main_pc = "running"
    /\ events = 0
    /\ enqueued = CountAll(<<>>, work_queue)
    /\ moved = {}
    /\ overwritten = {}
    /\ snap = NoSnap
    /\ tray = NoTray
    /\ self_file_categories = FileCategories
    /\ finished = <<>>
    /\ call = NoCall

TrayNext ==
    \/ StatusStart
    \/ IconRun
    \/ TraySignal
    \/ StatusLoopCheck
    \/ StatusGet
    \/ StatusTimeout
    \/ ShowNotification
    \/ Finally
    \/ Stop
    \/ Exit
    \/ \E w \in W : LoopCheck(w)
    \/ \E w \in W : GetItem(w)
    \/ \E w \in W : GetTimeout(w)
    \/ \E w \in W : ProcessStep(w)

TraySpec == TrayInit /\ [][TrayNext]_vars

(***************************************************************************)
(* The pool with the category maps a config.json may hold: the names are   *)
(* taken as they are (config.py:11), nothing restricts them to one path    *)
(* segment                                                                 *)
(***************************************************************************)

Slash == <<"/">>

\* "Images/Pics", "../O", "."
NestedName == Images \o Slash \o Pictures
EscapingName == DotDot \o Slash \o Outside
RootName == Dot

FolderMaps ==
    { FileCategories,
      << [category |-> Images, extensions |-> {ext_png}],
         [category |-> NestedName, extensions |-> {ext_jpg}],
         [category |-> Others, extensions |-> {}] >>,
      << [category |-> EscapingName, extensions |-> {ext_jpg}],
         [category |-> Others, extensions |-> {}] >>,
      << [category |-> RootName, extensions |-> {ext_jpg}],
         [category |-> Others, extensions |-> {}] >> }

\* main() before file_sorter.start(): a directory with two files, one category
\* folder may be there from an earlier run
FolderInit ==
    /\ files = (InRoot(a_1_jpg) :> FileRec(InRoot(a_1_jpg), 0, SmallSize))
               @@ (InRoot(s_txt) :> FileRec(InRoot(s_txt), 0, BigSize))
    /\ dirs \in {BaseDirs, BaseDirs \cup {InRoot(Others)}}
    /\ links = <<>>
    /\ work_queue = <<>>
    /\ status_queue = <<>>
    /\ stop_event = FALSE
    /\ workers = [w \in W |-> IdleWorker("unstarted")]
    /\ main_pc = "start"
    /\ events = 0
    /\ enqueued = <<>>
    /\ moved = {}
    /\ overwritten = {}
    /\ snap = NoSnap
    /\ tray = NoTray
    /\ self_file_categories \in FolderMaps
    /\ finished = <<>>
    /\ call = NoCall

FolderNext == PoolNext

FolderSpec == FolderInit /\ [][FolderNext]_vars

(***************************************************************************)
(* A direct call of _process_file while other processes write, delete and  *)
(* lock the files of the download directory                                *)
(***************************************************************************)

\* The sizes a file being written can have when it is read.
GrownSize == BigSize + SmallSize
WriteSizes == {0, BigSize, GrownSize}

WaitPcs == {"wait_stat", "wait_small", "wait_poll"}

EnvFsOptions ==
    { [files |-> (InRoot(a_jpg) :> FileRec(InRoot(a_jpg), 0, BigSize))
                 @@ (InRoot(a_1_jpg) :> FileRec(InRoot(a_1_jpg), 0, SmallSize)),
       dirs |-> BaseDirs,
       links |-> (LoopPath :> LoopPath)],
      [files |-> (InRoot(a_jpg) :> [FileRec(InRoot(a_jpg), 0, BigSize)
                                      EXCEPT !.locked = TRUE]),
       dirs |-> BaseDirs \cup {download_path \o <<Images>>},
       links |-> <<>>] }

EnvItems == {InRoot(a_jpg), InRoot(a_1_jpg), LoopPath, InRoot(Images)}

EnvInit ==
    /\ \E o \in EnvFsOptions :
          /\ files = o.files
          /\ dirs = o.dirs
          /\ links = o.links
    /\ SysIdle
    /\ call = NoCall

\* worker._process_file(item), once
EnvCallProcess ==
    \E item \in EnvItems :
        /\ workers[1].pc = "unstarted"
        /\ SetWorker(1, [IdleWorker("validate") EXCEPT !.caller = "test", !.item = item])
        /\ snap' = [NoSnap EXCEPT !.files = files, !.dirs = dirs,
                                  !.status = status_queue, !.n = snap.n + 1]
        /\ UNCHANGED <<fsvars, work_queue, status_queue, stop_event, main_pc, events,
                       enqueued, moved, overwritten, call, tray,
                   self_file_categories>>

\* The writer of the file the worker waits for appends to it or truncates it.
Write ==
    \E size \in WriteSizes :
        LET p == workers[1].file_path
        IN  /\ workers[1].pc \in WaitPcs
            /\ p \in DOMAIN files
            /\ files[p].size # size
            /\ files' = [files EXCEPT ![p].size = size]
            /\ UNCHANGED <<dirs, links, sysvars, call>>

\* The file the worker processes is deleted.
Delete ==
    LET p == workers[1].file_path
    IN  /\ workers[1].pc \in WaitPcs \cup {"classify", "resolve", "move"}
        /\ p \in DOMAIN files
        /\ files' = [q \in DOMAIN files \ {p} |-> files[q]]
        /\ snap' = [snap EXCEPT !.deleted = workers[1].pc,
                                !.polls_then = Len(workers[1].polls)]
        /\ UNCHANGED <<dirs, links, work_queue, status_queue, stop_event, workers, finished,
                       main_pc, events, enqueued, moved, overwritten, call, tray,
                   self_file_categories>>

EnvNext ==
    \/ EnvCallProcess
    \/ Write
    \/ Delete
    \/ \E w \in W : ProcessStep(w)

EnvSpec == EnvInit /\ [][EnvNext]_vars

(***************************************************************************)
(* One direct call of _process_file for a file of any size around the      *)
(* threshold that is still written while its first size is read and while  *)
(* the worker sleeps                                                       *)
(***************************************************************************)

FirstSizes == {0, SmallSize, SmallThreshold - 1, SmallThreshold, BigSize}

SizeInit ==
    /\ \E size \in FirstSizes :
          files = (InRoot(a_jpg) :> FileRec(InRoot(a_jpg), 0, size))
                  @@ (InRoot(a_1_jpg) :> FileRec(InRoot(a_1_jpg), 0, SmallSize))
    /\ dirs = BaseDirs
    /\ links = (LoopPath :> LoopPath)
    /\ SysIdle
    /\ call = NoCall

\* The writer of the file appends to it before the first size read or during the
\* sleep of line 134.
Grow ==
    LET p == workers[1].file_path
    IN  /\ workers[1].pc \in {"wait_stat", "wait_small"}
        /\ p \in DOMAIN files
        /\ files[p].size < GrownSize
        /\ files' = [files EXCEPT ![p].size = @ + SmallSize]
        /\ UNCHANGED <<dirs, links, sysvars, call>>

SizeNext ==
    \/ EnvCallProcess
    \/ Grow
    \/ Delete
    \/ \E w \in W : ProcessStep(w)

SizeSpec == SizeInit /\ [][SizeNext]_vars

(***************************************************************************)
(* Direct calls of the helper functions (as the unit tests make them)      *)
(***************************************************************************)

MaxParts == 2
MaxFiles == 3

PartStrings == {Images, DotDot, Dot, Lnk, <<"x">>, <<"/","e">>}

PartSeqs == UNION {[1..n -> PartStrings] : n \in 0..MaxParts}

Bases == {download_path, <<Home, Alias>>}

LinkOptions ==
    { <<>>,
      (download_path \o <<Lnk>>) :> <<Home, Outside>>,
      (download_path \o <<Lnk>>) :> (download_path \o <<Images>>),
      <<Home, Alias>> :> download_path }

ImagesFolder == download_path \o <<Images>>

FileOptions ==
    { {},
      {ImagesFolder \o <<t_txt>>},
      {ImagesFolder \o <<t_txt>>, ImagesFolder \o <<t_1_txt>>},
      {ImagesFolder \o <<a_bs_b_txt>>},
      {ImagesFolder \o <<<<"s">>, <<"x">> \o ext_txt>>} }

Filenames == {t_txt, up_t_txt, abs_t_txt, a_dotdot_txt, a_bs_b_txt, s_x_txt}

CategoryMaps ==
    { << [category |-> Images, extensions |-> {ext_jpg, ext_png}],
         [category |-> Documents, extensions |-> {ext_pdf}],
         [category |-> Others, extensions |-> {}] >>,
      << [category |-> Images, extensions |-> {ext_jpg}],
         [category |-> Pictures, extensions |-> {ext_jpg, ext_gif}],
         [category |-> Others, extensions |-> {}] >>,
      << [category |-> Documents, extensions |-> {ext_pdf}] >> }

Extensions == {ext_jpg, ext_JPG, ext_Jpg, ext_pdf, ext_gif, ext_txt, <<>>}

PureInit ==
    /\ \E fo \in FileOptions : files = [p \in fo |-> FileRec(p, 0, SmallSize)]
    /\ dirs = {<<>>, <<Home>>, download_path, ImagesFolder, ImagesFolder \o <<<<"s">>>>,
               <<Home, Outside>>}
    /\ links \in LinkOptions
    /\ call = NoCall
    /\ SysIdle

\* Each helper is called on a fixture nobody else is using: a call starts when
\* the preceding one has returned (EndCall), except that
\* _get_unique_destination is called again after its result was created.
CallSafePathJoin ==
    \E base \in Bases, parts \in PartSeqs :
        /\ call = NoCall
        /\ call' = [op |-> "safe_path_join", base_path |-> base, parts |-> parts,
                    result |-> safe_path_join(base, parts, links)]
        /\ UNCHANGED <<fsvars, sysvars>>

CallGetFileCategory ==
    \E fc \in CategoryMaps, e \in Extensions :
        /\ call = NoCall
        /\ call' = [op |-> "_get_file_category", self_file_categories |-> fc,
                    file_extension |-> e, result |-> _get_file_category(fc, e)]
        /\ UNCHANGED <<fsvars, sysvars>>

\* prev: the result of the preceding call when it had the same arguments and its
\* result has since been created.
CallGetUniqueDestination ==
    \E filename \in Filenames :
        /\ call.op \in {"none", "_get_unique_destination"}
        /\ call' = [op |-> "_get_unique_destination",
                    destination_folder |-> ImagesFolder, filename |-> filename,
                    result |-> _get_unique_destination(ImagesFolder, filename,
                                                       files, dirs, links),
                    at_call |-> files,
                    prev |-> IF /\ call.op = "_get_unique_destination"
                                /\ call.filename = filename
                                /\ call.result.err = "none"
                                /\ call.result.path \in DOMAIN files
                             THEN call.result.path ELSE NoPath]
        /\ UNCHANGED <<fsvars, sysvars>>

\* The caller creates the file the last call returned (fs.create_file in the test).
CreateDestination ==
    /\ call.op = "_get_unique_destination"
    /\ call.result.err = "none"
    /\ call.result.path \notin DOMAIN files
    /\ SubSeq(call.result.path, 1, Len(call.result.path) - 1) \in dirs
    /\ Cardinality(DOMAIN files) < MaxFiles
    /\ files' = (call.result.path :> FileRec(call.result.path, 0, SmallSize)) @@ files
    /\ UNCHANGED <<dirs, links, call, sysvars>>

\* The caller is done with the result.
EndCall ==
    /\ call # NoCall
    /\ call' = NoCall
    /\ UNCHANGED <<fsvars, sysvars>>

PureNext ==
    \/ CallSafePathJoin
    \/ CallGetFileCategory
    \/ CallGetUniqueDestination
    \/ CreateDestination
    \/ EndCall

PureSpec == PureInit /\ [][PureNext]_vars

(***************************************************************************)
(* Properties of the helper functions, checked under PureSpec              *)
(***************************************************************************)

\* p is r or lies below r
WithinRoot(p, r) == \E k \in 0..Len(p) : SubSeq(p, 1, k) = r

ExistedAtCall(p) == Exists(p, call.at_call, dirs, links)

\* The stem the resolver uses for suffixed names (spec 4.3: sanitised to
\* alphanumerics, space, hyphen and underscore when it holds a separator).
ClaimStem(filename) ==
    LET name == PathName(Split(filename))
        stem == PathStem(name)
    IN  IF \E i \in 1..Len(stem) : stem[i] \in {"/", "\\"}
        THEN Strip(FilterSafe(stem)) ELSE stem

ClaimSuffixed(folder, filename, n) ==
    folder \o <<ClaimStem(filename) \o <<"_">> \o IntToStr(n)
                \o PathSuffix(PathName(Split(filename)))>>

\* C7: for an accepted filename the result is folder/filename when that path does
\* not exist, otherwise folder/<stem>_<n><suffix> for the least n >= 1 whose path
\* does not exist; the result does not exist at call time, and differs from the
\* result of the preceding call with the same arguments once that was created.
C7_UniqueDestinationIsFresh ==
    (call.op = "_get_unique_destination" /\ call.result.err = "none") =>
        LET folder == call.destination_folder
            first == folder \o Split(call.filename)
            path == call.result.path
        IN  /\ ~ExistedAtCall(path)
            /\ ~ExistedAtCall(first) => path = first
            /\ ExistedAtCall(first) =>
                  \E n \in 1..(Cardinality(DOMAIN call.at_call) + 1) :
                      /\ path = ClaimSuffixed(folder, call.filename, n)
                      /\ \A m \in 1..(n - 1) :
                            ExistedAtCall(ClaimSuffixed(folder, call.filename, m))
            /\ call.prev # NoPath => (path # call.prev /\ ExistedAtCall(call.prev))

C7_Witness ==
    /\ call.op = "_get_unique_destination"
    /\ call.filename = t_txt
    /\ call.prev = ImagesFolder \o <<t_1_txt>>
    /\ call.result.path = ImagesFolder \o <<<<"t","_","2">> \o ext_txt>>

\* The segments of a filename as written: split at "/", nothing dropped.
RECURSIVE RawSegments(_, _)
RawSegments(s, cur) ==
    IF s = <<>> THEN <<cur>>
    ELSE IF Head(s) = "/" THEN <<cur>> \o RawSegments(Tail(s), <<>>)
         ELSE RawSegments(Tail(s), Append(cur, Head(s)))

HasParentSegment(filename) ==
    \E i \in 1..Len(RawSegments(filename, <<>>)) : RawSegments(filename, <<>>)[i] = DotDot

\* C8: _get_unique_destination fails with InvalidName if and only if the filename
\* has a parent-directory segment or begins with an absolute-path marker.
C8_InvalidNameIffTraversal ==
    call.op = "_get_unique_destination" =>
        (call.result.err = "InvalidName"
            <=> (HasParentSegment(call.filename) \/ IsAbsolute(call.filename)))

\* C9: classify(e) = classify(lowercase(e)) for every extension and every map with
\* lowercase extension sets.
C9_ClassifyCaseInsensitive ==
    call.op = "_get_file_category" =>
        \A e \in Extensions :
            Lower(e) = Lower(call.file_extension) =>
                _get_file_category(call.self_file_categories, e) = call.result

C9_Witness ==
    /\ call.op = "_get_file_category"
    /\ call.file_extension = ext_JPG
    /\ call.result = Images

\* The positions of the categories whose extension set holds the extension.
Matching(fc, e) == {i \in 1..Len(fc) : e \in fc[i].extensions}

\* C10: the result is the first category in declaration order whose set holds the
\* lowercased extension, and Others when none does (the empty extension included).
C10_ClassifyFirstDeclaredWins ==
    call.op = "_get_file_category" =>
        LET m == Matching(call.self_file_categories, Lower(call.file_extension))
        IN  /\ m # {} =>
                  call.result =
                      call.self_file_categories[CHOOSE i \in m : \A j \in m : i <= j].category
            /\ m = {} => call.result = Others
            /\ call.file_extension = <<>> => call.result = Others

C10_Witness ==
    /\ call.op = "_get_file_category"
    /\ Cardinality(Matching(call.self_file_categories, Lower(call.file_extension))) = 2
    /\ call.file_extension = ext_Jpg
    /\ call.result = Images

(***************************************************************************)
(* Properties of _process_file, checked under ProcessSpec                  *)
(***************************************************************************)

\* C4: a call for a path that does not resolve inside the monitored root ends in
\* Rejected right after validation: no file is moved, no directory is created and
\* no status message is emitted.
C4_OutsidePathRejected ==
    \A w \in W :
        (workers[w].caller = "test"
            /\ ~WithinRoot(Resolve(workers[w].item, links), download_path)) =>
                /\ workers[w].pc \in {"validate", "returned"}
                /\ files = snap.files
                /\ dirs = snap.dirs
                /\ status_queue = snap.status
                /\ workers[w].pc = "returned" =>
                      (workers[w].outcome = "Rejected" /\ workers[w].emitted = 0)

C4_Witness ==
    /\ workers[1].pc = "returned"
    /\ workers[1].item = OutsideFile
    /\ workers[1].outcome = "Rejected"
    /\ OutsideFile \in DOMAIN files

\* The categories whose extension set holds the (lowercased) suffix of a name.
CategoriesOf(name) ==
    {FileCategories[i].category :
        i \in Matching(FileCategories, Lower(PathSuffix(name)))}

\* C6: a call for a regular file <root>/<name> whose extension belongs to category
\* C ends with <root>/C/<name> existing, the source gone, and exactly one message,
\* 'File Sorted' naming the file and C.
C6_SortedIntoCategory ==
    \A w \in W :
        (/\ workers[w].pc = "returned"
         /\ workers[w].item \in DOMAIN snap.files
         /\ workers[w].item = InRoot(PathName(workers[w].item))
         /\ CategoriesOf(PathName(workers[w].item)) # {}) =>
            \E C \in CategoriesOf(PathName(workers[w].item)) :
                /\ workers[w].outcome = "Reported"
                /\ (download_path \o <<C, PathName(workers[w].item)>>) \in DOMAIN files
                /\ workers[w].item \notin DOMAIN files
                /\ status_queue =
                       Append(snap.status, SortedMessage(PathName(workers[w].item), C))

(***************************************************************************)
(* Properties of the worker pool, checked under Spec                       *)
(***************************************************************************)

\* The worker is inside _process_file.
Busy(w) ==
    workers[w].pc \in {"validate", "wait_stat", "wait_small", "wait_poll", "classify",
                       "resolve", "move", "report"}

\* Nothing is queued or in progress, and the stop event was never set.
Quiescent ==
    /\ ~stop_event
    /\ main_pc = "running"
    /\ work_queue = <<>>
    /\ \A w \in W : workers[w].pc \in {"loop", "get"}

\* C1: when K distinct regular files of the monitored root were each enqueued once
\* and the pool has drained the queue (the stop event never set), exactly K files
\* have been moved.
C1_EveryFileMovedOnce ==
    (/\ Quiescent
     /\ \A p \in DOMAIN enqueued : enqueued[p] = 1 /\ p \notin DOMAIN links) =>
        Cardinality(moved) = Cardinality(DOMAIN enqueued)

\* C2: at every moment at most one worker is processing a given file path.
C2_OneWorkerPerPath ==
    \A w1, w2 \in W :
        (w1 # w2 /\ Busy(w1) /\ Busy(w2)) =>
            Resolve(workers[w1].item, links) # Resolve(workers[w2].item, links)

\* C3: no move replaces a file that is already in a category folder.
C3_NoMoveOverwrites == overwritten = {}

(***************************************************************************)
(* Properties of the stability wait and of the move, checked under EnvSpec *)
(***************************************************************************)

\* The i-th poll read the size the poll before it read, and that size is not zero.
StablePairAt(polls, i) == i >= 2 /\ polls[i] = polls[i - 1] /\ polls[i] > 0

NoStablePair(polls) == \A i \in 1..Len(polls) : ~StablePairAt(polls, i)

\* The wait has returned true and the call goes on.
PastWait(w) == workers[w].pc \in {"classify", "resolve", "move", "report"}

\* C11: for a file whose first size read is at least the threshold (the files
\* that are polled) the wait returns true at the first poll that reads the size of
\* the preceding poll, that size being greater than zero, and runs no poll after
\* it; a file of BigSize bytes that the first two polls read unchanged is stable
\* after exactly 2 polls.
C11_StableAtFirstRepeatedSize ==
    LET polls == workers[1].polls
    IN  /\ \A i \in 1..Len(polls) :
              StablePairAt(polls, i) =>
                  /\ i = Len(polls)
                  /\ workers[1].pc # "wait_poll"
                  /\ ~(workers[1].pc = "returned" /\ workers[1].outcome = "Skipped")
        /\ (PastWait(1) /\ polls # <<>>) =>
              StablePairAt(polls, Len(polls))
        /\ (Len(polls) >= 2 /\ polls[1] = BigSize /\ polls[2] = BigSize) =>
              Len(polls) = 2

C11_Witness ==
    /\ workers[1].pc = "classify"
    /\ workers[1].file_path = InRoot(a_jpg)
    /\ workers[1].polls = <<BigSize, BigSize>>

\* C12: the wait makes at most STABLE_FILE_MAX_ATTEMPTS polls, and when that many
\* polls have passed without two consecutive polls reading the same non-zero size
\* it returns false: the call ends in Skipped, nothing is moved, created or
\* reported.
C12_UnstableFileSkipped ==
    LET polls == workers[1].polls
    IN  /\ Len(polls) <= STABLE_FILE_MAX_ATTEMPTS
        /\ (Len(polls) = STABLE_FILE_MAX_ATTEMPTS /\ NoStablePair(polls)) =>
              /\ workers[1].pc \in {"wait_poll", "returned"}
              /\ moved = {}
              /\ dirs = snap.dirs
              /\ status_queue = snap.status
              /\ workers[1].pc = "returned" =>
                    (workers[1].outcome = "Skipped" /\ workers[1].emitted = 0)

C12_Witness ==
    /\ workers[1].pc = "returned"
    /\ workers[1].outcome = "Skipped"
    /\ Len(workers[1].polls) = STABLE_FILE_MAX_ATTEMPTS
    /\ \A i \in 2..Len(workers[1].polls) : workers[1].polls[i] # workers[1].polls[i - 1]
    /\ workers[1].item \in DOMAIN files

\* C13: when the file is deleted during the stability wait, the wait makes no
\* further poll and returns false, and the call ends in Skipped: no move, no
\* folder, no status message.
C13_DeletedDuringWaitSkipped ==
    snap.deleted \in WaitPcs =>
        /\ workers[1].pc \in WaitPcs \cup {"returned"}
        /\ Len(workers[1].polls) = snap.polls_then
        /\ moved = {}
        /\ dirs = snap.dirs
        /\ status_queue = snap.status
        /\ workers[1].pc = "returned" =>
              (workers[1].outcome = "Skipped" /\ workers[1].emitted = 0)

C13_Witness ==
    /\ workers[1].pc = "returned"
    /\ workers[1].outcome = "Skipped"
    /\ snap.deleted = "wait_poll"
    /\ snap.polls_then >= 1

C15_SourceRemovedAfterVerifiedCopy ==
    [][\A w \in W :
          LET src == workers[w].file_path
              dst == workers[w].destination_path
          IN  (/\ workers[w].pc = "move"
               /\ workers'[w].pc = "report"
               /\ src \in DOMAIN files
               /\ src \notin DOMAIN files')
                  => /\ dst \in DOMAIN files
                     /\ files[dst].size = files[src].size
                     /\ dst \in DOMAIN files']_vars

\* C16: a call that ends in Rejected, in Skipped or in an unexpected error puts
\* nothing on the status queue.
C16_OnlyMovesAndMoveFailuresReported ==
    (workers[1].pc = "returned"
        /\ workers[1].outcome \in {"Rejected", "Skipped", "Unexpected"}) =>
            (status_queue = snap.status /\ workers[1].emitted = 0)

(***************************************************************************)
(* Properties of the pool's life cycle                                     *)
(***************************************************************************)

\* The worker's thread is running.
Live(w) == workers[w].pc \notin {"unstarted", "exited", "killed"}

\* C17: whatever the outcome of a call, the worker returns to its loop; a worker
\* leaves the loop only when the stop event is set, so that all NUM_WORKERS
\* workers are alive until then.
C17_FailureKeepsWorkerAlive ==
    [][\A w \in W :
          /\ (Busy(w) /\ workers'[w].pc \notin
                  {"validate", "wait_stat", "wait_small", "wait_poll", "classify",
                   "resolve", "move", "report"}) => workers'[w].pc = "loop"
          /\ (Live(w) /\ workers'[w].pc \in {"exited", "killed"}) =>
                (stop_event /\ workers[w].pc = "loop")
          /\ (Live(w) /\ ~stop_event') =>
                Cardinality({v \in W : workers'[v].pc \notin
                                          {"unstarted", "exited", "killed"}})
                    = NUM_WORKERS]_vars

C17_Witness ==
    \E w \in W :
        /\ workers[w].failed
        /\ workers[w].pc = "report"
        /\ ~stop_event
        /\ Len(status_queue) >= 1
        /\ status_queue[1].title = "Move Error"

\* C18: once stop() has been called the stop event is set.
C18_StopSetsSignal == main_pc \in {"goodbye", "exited"} => stop_event

\* C19: no worker takes an item from the work queue once the stop event is set.
C19_NoDequeueAfterSignal ==
    [][\A w \in W :
          (workers[w].pc = "get" /\ workers'[w].pc = "validate") => ~stop_event]_vars

\* C20: after the stop event is set, a worker that has taken an item brings it to
\* a terminal state before the worker ends, also when stop() returns on a join
\* timeout and the application shuts down meanwhile.
C20_DequeuedItemIsFinished ==
    \A w \in W : (stop_event /\ workers[w].pc = "killed") => workers[w].item = NoPath

(***************************************************************************)
(* sort_existing_files, the watcher, the tray                              *)
(***************************************************************************)

\* The regular files that are immediate children of the download directory.
TopLevelFiles(f) == {p \in DOMAIN f : Parent(p) = download_path}

Occurrences(q, p) == Cardinality({i \in 1..Len(q) : q[i] = p})

\* C21: once sort_existing_files has returned, the queue holds every regular
\* file that is an immediate child of the download directory exactly once and
\* nothing else (as many items as there are such files), and the files and
\* directories are as they were before the call.
C21_ExistingFilesQueuedOnce ==
    (main_pc = "running") =>
        /\ \A p \in TopLevelFiles(files) : Occurrences(work_queue, p) = 1
        /\ \A i \in 1..Len(work_queue) : work_queue[i] \in TopLevelFiles(files)
        /\ Len(work_queue) = Cardinality(TopLevelFiles(files))
        /\ files = snap.files
        /\ dirs = snap.dirs

C23_NoMessageDropped ==
    (main_pc = "exited" /\ stop_event) =>
        /\ status_queue = <<>>
        /\ tray.message = NoMessage
        /\ Len(tray.shown) = tray.taken

\* C24: a put on the status channel never blocks: a worker that is about to put
\* a message (a failure of resolve() or of the move, or 'File Sorted') can always
\* take that step, whatever the channel holds and whether the status thread is
\* draining, not started or gone, and the step that puts 'File Sorted' takes it
\* back to the loop of run() for its next dequeue.
C24_StatusPutNeverBlocks ==
    \A w \in W :
        /\ workers[w].pc = "validate" => ENABLED ProcessValidate(w)
        /\ workers[w].pc = "move" => ENABLED Move(w)
        /\ workers[w].pc = "report" =>
               ENABLED (Report(w) /\ workers'[w].pc = "loop")

\* A worker is about to report while the status thread has exited and an
\* earlier message is still in the channel.
C24_Witness ==
    \E w \in W :
        /\ workers[w].pc = "report"
        /\ tray.pc = "exited"
        /\ status_queue # <<>>

(***************************************************************************)
(* FileSorter.start, the category folders, the destinations                *)
(***************************************************************************)

\* C25: start() creates the category folders before it spawns the workers: while
\* a folder is missing no worker has been started (so none has dequeued an
\* item), and the workers are started all NUM_WORKERS at once.
C25_FoldersBeforeWorkers ==
    /\ (\E w \in W : workers[w].pc # "unstarted") => CategoryFolders \subseteq dirs
    /\ (\E w \in W : workers[w].pc # "unstarted") =>
           Cardinality({w \in W : workers[w].pc # "unstarted"}) = NUM_WORKERS

\* The names of the category map, each as one path segment.
CategoryNames == {self_file_categories[i].category : i \in 1..Len(self_file_categories)}

\* C26: every directory that start() or a worker creates is a direct child of the
\* download directory whose name is a key of the category map; a step creates
\* nothing for a key whose join leaves the root and nothing for a folder that is
\* already there.
C26_OnlyCategoryFoldersCreated ==
    [][\A d \in dirs' \ dirs :
          /\ Parent(d) = download_path
          /\ PathName(d) \in CategoryNames]_vars

\* The worker's step is a shutil.move that succeeded.
Moves(w) == workers[w].pc = "move" /\ workers'[w].pc = "report"

\* C27: every move takes the file to <root>/<category of its extension>/<name>
\* or to the same with a suffixed name, which is inside a subfolder of the
\* download directory: never outside the directory and never directly in it.
C27_MovesGoIntoCategoryFolder ==
    [][\A w \in W : Moves(w) =>
          LET name == PathName(workers[w].file_path)
              category == _get_file_category(self_file_categories, PathSuffix(name))
              folder == JoinPath(download_path, <<category>>)
              dst == workers[w].destination_path
          IN  /\ \/ dst = folder \o <<name>>
                 \/ \E n \in 1..(Cardinality(DOMAIN files) + 1) :
                       dst = ClaimSuffixed(folder, name, n)
              /\ dst \in DOMAIN files'
              /\ IsRelativeTo(dst, download_path)
              /\ Len(dst) > Len(download_path) + 1]_vars

(***************************************************************************)
(* The order of the checks, the small file, termination                    *)
(***************************************************************************)

\* C28: only a worker's shutil.move moves a file, and when it does the call has
\* passed, in this order, the check that the resolved path is in the download
\* directory, the check that it is an existing regular file and a stability
\* wait that returned True (after polls: on two equal sizes); a call whose wait
\* returned False or was not reached moves nothing.
C28_MoveOnlyAfterChecks ==
    [][/\ moved' # moved => \E w \in W : Moves(w)
       /\ \A w \in W : Moves(w) =>
             /\ workers[w].checks = <<"inside", "regular", "stable">>
             /\ workers[w].file_path = Resolve(workers[w].item, links)
             /\ InsideDownloads(workers[w].file_path)
             /\ \/ workers[w].polls = <<>>
                \/ StablePairAt(workers[w].polls, Len(workers[w].polls))]_vars

\* A file was moved after its size had been polled.
C28_Witness ==
    /\ workers[1].pc = "report"
    /\ Len(workers[1].polls) >= 2
    /\ moved # {}

\* C29: the wait takes the path of the small file exactly when the first size
\* read is below SmallThreshold (a file of exactly SmallThreshold bytes is
\* polled); on that path it sleeps once and returns whether the file exists
\* then: it reads no further size, and a file that exists is accepted whatever
\* its size was (zero included) and is now, grown or not.
C29_SmallFileWaitsOnce ==
    [][\A w \in W :
          /\ workers'[w].pc = "wait_small" => workers'[w].file_size < SmallThreshold
          /\ workers'[w].pc = "wait_poll" => workers'[w].file_size >= SmallThreshold
          /\ (workers[w].pc = "wait_small" /\ workers'[w] # workers[w]) =>
                /\ workers'[w].pc # "wait_small"
                /\ workers'[w].polls = <<>>
                /\ workers'[w].pc = "classify" <=> workers[w].file_path \in DOMAIN files
                /\ workers'[w].pc # "classify" =>
                      (workers'[w].pc = "returned" /\ workers'[w].outcome = "Skipped")]_vars

\* A file whose first size read was zero has grown during the sleep and is
\* accepted.
C29_Witness ==
    /\ workers[1].pc = "classify"
    /\ workers[1].polls = <<>>
    /\ workers[1].file_path = InRoot(a_jpg)
    /\ snap.files[InRoot(a_jpg)].size = 0
    /\ files[InRoot(a_jpg)].size = SmallSize

\* The outcomes a call of the model ends in
Outcomes == <<"Reported", "Rejected", "Skipped", "Failed", "Unexpected">>

TerminalStates == {"Reported", "Rejected", "Skipped", "Failed"}

\* The terminal state an outcome stands for: the catch-all of lines 115-120 ends
\* the call as a failed move does, with a 'Move Error' message and the file left
\* in place.
TerminalState(outcome) == IF outcome = "Unexpected" THEN "Failed" ELSE outcome

\* How many calls for the path p have ended.
RECURSIVE FinishedFrom(_, _, _)
FinishedFrom(fin, p, i) ==
    IF i > Len(Outcomes) THEN 0
    ELSE (IF <<p, Outcomes[i]>> \in DOMAIN fin THEN fin[<<p, Outcomes[i]>>] ELSE 0)
         + FinishedFrom(fin, p, i + 1)

\* Every put has been answered by a call that has ended.
AllDone ==
    /\ work_queue = <<>>
    /\ \A w \in W : workers[w].pc \in {"loop", "get"}
    /\ \A p \in DOMAIN enqueued : FinishedFrom(finished, p, 1) = enqueued[p]

HasExited(w) == workers[w].pc = "exited"

\* C31: once the signal is set every worker leaves its loop. After the signal a
\* worker at the loop's test does not start another get: what is left to it is
\* the get it is in, which ends with the timeout or with an item, and the call
\* for the item it holds.
C31_WorkersExitAfterSignal ==
    /\ [](stop_event => <>(\A w \in W : HasExited(w)))
    /\ [][\A w \in W : stop_event /\ workers[w].pc = "loop"
                          => workers'[w].pc \in {"loop", "exited"}]_vars
    /\ [][\A w \in W : HasExited(w) => workers'[w] = workers[w]]_vars

\* All workers have exited after the signal, one of them from an empty queue,
\* after a call had ended, while the other left an item on the queue.
C31_Witness ==
    /\ stop_event
    /\ \A w \in W : HasExited(w)
    /\ finished # <<>>
    /\ work_queue # <<>>

\* The pcs of a call before _wait_for_file_completion has returned
BeforeClassify == {"validate"} \cup WaitPcs

\* C32: a call that ends in Skipped (the path is missing, is not a regular
\* file, was deleted during the wait or never stabilized) has changed nothing:
\* the folders and the status channel are those of the call's start, every file
\* still there is where it was, nothing was moved and no message was emitted;
\* and no step the worker takes before the wait has returned, the last one of a
\* Skipped call included, touches the filesystem or the channel.
C32_SkippedChangesNothing ==
    /\ []((workers[1].pc = "returned" /\ workers[1].outcome = "Skipped") =>
            /\ dirs = snap.dirs
            /\ status_queue = snap.status
            /\ workers[1].emitted = 0
            /\ moved = {}
            /\ overwritten = {}
            /\ \A p \in DOMAIN files :
                   p \in DOMAIN snap.files /\ files[p].id = snap.files[p].id)
    /\ [][\A w \in W :
            (/\ workers[w].pc \in BeforeClassify
             /\ workers'[w] # workers[w]
             /\ workers'[w].outcome # "Unexpected") =>
                UNCHANGED <<files, dirs, links, status_queue, moved>>]_vars

\* A call for a file that never stabilized within the polls has ended in Skipped.
C32_Witness ==
    /\ workers[1].pc = "returned"
    /\ workers[1].outcome = "Skipped"
    /\ Len(workers[1].polls) = STABLE_FILE_MAX_ATTEMPTS
    /\ workers[1].item \in DOMAIN files

\* The path lies below the download directory, not directly in it
InSubfolder(p) == IsRelativeTo(p, self_download_path) /\ Parent(p) # self_download_path

\* C33: a file that lies in a subfolder of the download directory is never moved
\* or renamed: after every step it is at the same path with the same content.
C33_SortedFileStays ==
    [][\A p \in DOMAIN files :
          InSubfolder(p) => (p \in DOMAIN files' /\ files'[p].id = files[p].id)]_vars

\* How many 'File Sorted' messages the channel holds
RECURSIVE SortedIn(_)
SortedIn(q) ==
    IF q = <<>> THEN 0
    ELSE (IF Head(q).title = "File Sorted" THEN 1 ELSE 0) + SortedIn(Tail(q))

\* The worker has moved a file and not yet put its message
MovedUnreported(w) == workers[w].pc = "report"

\* C34: one 'File Sorted' message for each completed move and none without a
\* move. A move that succeeds leaves its worker between move and report and
\* emits nothing yet; a worker leaves that position only by putting exactly one
\* 'File Sorted' message; and no other step adds such a message.
C34_OneSortedMessagePerMove ==
    [][/\ \A w \in W :
             (workers[w].pc = "move" /\ workers'[w] # workers[w] /\ files' # files) =>
                 (MovedUnreported(w)' /\ status_queue' = status_queue)
       /\ \A w \in W :
             (MovedUnreported(w) /\ ~MovedUnreported(w)') =>
                 /\ Len(status_queue') = Len(status_queue) + 1
                 /\ status_queue'[Len(status_queue')].title = "File Sorted"
                 /\ status_queue'[Len(status_queue')].name = PathName(workers[w].file_path)
       /\ SortedIn(status_queue') > SortedIn(status_queue) =>
             /\ SortedIn(status_queue') = SortedIn(status_queue) + 1
             /\ \E w \in W : MovedUnreported(w) /\ ~MovedUnreported(w)'
      ]_vars

\* C35: the status channel has a capacity, and the messages put and not yet
\* taken by the status thread never exceed it.
C35_StatusChannelBounded ==
    status_queue # <<>> => (maxsize > 0 /\ Len(status_queue) <= maxsize)

====
